---- MODULE Spec2Model ----
(***************************************************************************)
(* Patient-context engine of the skincare agent orchestrator:              *)
(*   services/patient_context_analyzer.py  PatientContextAnalyzer          *)
(*   services/patient_context_service.py   PatientContextService           *)
(*   data_models/chat_context.py           ChatContext, PatientContext     *)
(* A turn is decide_and_apply: classify (await), apply the transition,     *)
(* summarize (await), synchronize the PATIENT_CONTEXT_JSON system message. *)
(***************************************************************************)
EXTENDS Integers, Sequences, FiniteSets, TLC

\* ---------------------------------------------------------------- bounds
MaxIds == 2
MaxMsgs == 2

\* ------------------------------------------------------------- universes
IdNames == <<"patient_5", "patient_6", "patient_4", "patient_7">>
PatientIds == {IdNames[i] : i \in 1..MaxIds}

\* Python None, kept apart from every string the program handles.
None == "<None>"

ConversationId == "conv-1"

AnalyzerActions == {"NONE", "CLEAR", "ACTIVATE_NEW", "SWITCH_EXISTING", "UNCHANGED"}
Decisions == {"NONE", "UNCHANGED", "NEW_BLANK", "SWITCH_EXISTING", "CLEAR"}

\* Python truthiness of an Optional[str]: None and "" are falsy.
Truthy(s) == s # None /\ s # ""

\* ------------------------------------------- the classifier's LLM response
\* What svc.get_chat_message_content can produce.  A reply's content is
\*   fence : how the text is wrapped in a ``` code fence
\*   body  : "empty" (no text / whitespace), "text" (not JSON),
\*           "array" / "scalar" (JSON, but not an object), "object"
\*   act   : the object's "action" member
\*   pidv  : the object's "patient_id" member
Fences == {"none", "lang_newline", "bare", "lang_inline"}

\* The "action" member: absent/null/"" (falsy), a truthy non-string, or a
\* string spelled in some case with optional surrounding blanks.
RawTags == AnalyzerActions \cup {"BOGUS"}
RawActions ==
    {[k |-> "falsy", tag |-> "", lower |-> FALSE, padded |-> FALSE],
     [k |-> "nonstr", tag |-> "", lower |-> FALSE, padded |-> FALSE]}
    \cup [k : {"str"}, tag : RawTags, lower : BOOLEAN, padded : BOOLEAN]

\* The "patient_id" member: null/absent, a blank string, a string naming an
\* id (optionally padded with blanks), or a non-string value naming one.
RawPids ==
    {[k |-> "null", id |-> None, padded |-> FALSE],
     [k |-> "blank", id |-> "", padded |-> TRUE]}
    \cup [k : {"str"}, id : PatientIds, padded : BOOLEAN]
    \cup [k : {"nonstr"}, id : PatientIds, padded : {FALSE}]

NoAct == [k |-> "falsy", tag |-> "", lower |-> FALSE, padded |-> FALSE]
NoPid == [k |-> "null", id |-> None, padded |-> FALSE]

Responses ==
    {[kind |-> "error", fence |-> "none", body |-> "empty", act |-> NoAct, pidv |-> NoPid]}
    \cup [kind : {"reply"}, fence : {"none"}, body : {"empty"}, act : {NoAct}, pidv : {NoPid}]
    \cup [kind : {"reply"}, fence : Fences, body : {"text", "array", "scalar"},
          act : {NoAct}, pidv : {NoPid}]
    \cup [kind : {"reply"}, fence : Fences, body : {"object"}, act : RawActions, pidv : RawPids]

NoResponse == [kind |-> "none", fence |-> "none", body |-> "empty", act |-> NoAct, pidv |-> NoPid]

\* str.strip().upper() on the spelled tag: the spelling is dropped.
StripUpper(a) == a.tag

\* str(pid).strip(): padding is dropped, a blank string becomes "".
StrStrip(p) == p.id

\* Outcome of a block of code: it returns a tuple or raises an exception.
Return(a, p) == [raised |-> "no", action |-> a, pid |-> p]
Raise(e) == [raised |-> e, action |-> "NONE", pid |-> None]

\* Lines 139-150: fence stripping, then json.loads.  A fence followed by a
\* language tag on the same line leaves text json.loads rejects.
JsonLoads(r) ==
    IF r.fence = "lang_inline" \/ r.body = "text" THEN "JSONDecodeError"
    ELSE r.body

\* Lines 152-164: read the two members, validate the action.
ReadMembers(r) ==
    IF r.act.k = "nonstr" THEN Raise("AttributeError")
    ELSE LET action == IF r.act.k = "falsy" THEN "" ELSE StripUpper(r.act)
             pid == IF r.pidv.k = "null" THEN None ELSE StrStrip(r.pidv)
         IN  IF action \notin AnalyzerActions
             THEN Return("NONE", None)
             ELSE Return(action, pid)

\* Lines 107-164: the body of the try block.
AnalyzeTry(r) ==
    IF r.kind = "error" THEN Raise("TransportError")
    ELSE IF r.body = "empty" THEN Return("NONE", None)
    ELSE LET data == JsonLoads(r)
         IN  IF data = "JSONDecodeError" THEN Return("NONE", None)
             ELSE IF data # "object" THEN Raise("AttributeError")
             ELSE ReadMembers(r)

\* analyze without its outer handler: the exception leaves analyze.
AnalyzeCatch_Reraise(out) == out

\* Lines 166-170: except Exception -> ("NONE", None, duration).
AnalyzeCatch(out) ==
    IF out.raised # "no" THEN Return("NONE", None) ELSE out

\* PatientContextAnalyzer.analyze once the external call has come back.
AnalyzeResult(r) == AnalyzeCatch(AnalyzeTry(r))

\* analyze without the short-circuit of lines 63-66.
NeedsLlmCall_Always(text) == TRUE

\* Lines 63-66: empty user_text returns without the external call.
NeedsLlmCall(text) == text # ""


\* ------------------------------------------- the summarizer's LLM response
SummaryOutcomes == {"error", "empty", "text"}

\* summarize_text lines 188-198: the try block; the request fails, or the
\* reply's content is stripped ("" when it has none).
SummaryRaised == "<raised>"
SummarizeTry(o) ==
    IF o = "error" THEN SummaryRaised
    ELSE IF o = "text" THEN "summary" ELSE ""

\* PatientContextAnalyzer.summarize_text: "" on any exception (lines 199-201).
SummarizeText(o) ==
    LET r == SummarizeTry(o) IN IF r = SummaryRaised THEN "" ELSE r

\* The summary with no handler on the way: the exception reaches the turn.
ServiceSummary_NoHandlers(o) == SummarizeTry(o)

\* decide_and_apply lines 102-108: the summary it keeps; an exception out of
\* summarize_text is replaced by the unavailable marker.
SummaryUnavailable == "Chat summary unavailable"
ServiceSummary(o) ==
    LET r == SummarizeText(o) IN IF r = SummaryRaised THEN SummaryUnavailable ELSE r

\* ------------------------------------------------------------ ChatContext
\* patient_contexts is a Python dict: a sequence of entries with unique keys
\* in insertion order.
EmptyFacts == <<>>
PatientContext(id) == [patient_id |-> id, facts |-> EmptyFacts]

Keys(d) == [i \in 1..Len(d) |-> d[i].patient_id]
HasKey(d, k) == \E i \in 1..Len(d) : d[i].patient_id = k

\* d[k] = v, with a new key put in front of the others.
DictSetItem_Front(d, k, v) ==
    IF HasKey(d, k)
    THEN [i \in 1..Len(d) |-> IF d[i].patient_id = k THEN v ELSE d[i]]
    ELSE <<v>> \o d

\* d[k] = v
DictSetItem(d, k, v) ==
    IF HasKey(d, k)
    THEN [i \in 1..Len(d) |-> IF d[i].patient_id = k THEN v ELSE d[i]]
    ELSE Append(d, v)

\* Transcript messages.  prefixed: the content starts with PATIENT_CONTEXT_JSON:
NoPayload == [conversation_id |-> "", patient_id |-> None,
              all_patient_ids |-> <<>>, chat_summary |-> None]
ChatMessage(role, prefixed, text) ==
    [role |-> role, prefixed |-> prefixed, text |-> text, payload |-> NoPayload]
SystemMessage(payload) ==
    [role |-> "system", prefixed |-> TRUE, text |-> "record", payload |-> payload]

\* What the bot and the group chat append between two turns.
AppendableMessages ==
    {ChatMessage(r, p, "hello") : r \in {"user", "assistant"}, p \in BOOLEAN}

\* role == SYSTEM and content.startswith(PATIENT_CONTEXT_PREFIX)
IsPatientContextMessage(m) == m.role = "system" /\ m.prefixed

NonContext(msgs) == SelectSeq(msgs, LAMBDA m : ~IsPatientContextMessage(m))

\* ------------------------------------------------- PatientContextService
\* _activate_patient without the same-patient test of lines 146-149.
ActivatePatient_NoSameCheck(p, cur, ctxs) ==
    IF ~Truthy(p) THEN <<"NONE", cur, ctxs>>
    ELSE IF HasKey(ctxs, p) THEN <<"SWITCH_EXISTING", p, ctxs>>
    ELSE <<"NEW_BLANK", p, Append(ctxs, [patient_id |-> p, facts |-> <<>>])>>

\* _activate_patient without the membership test of lines 151-156: any
\* other id gets a new PatientContext.
ActivatePatient_AlwaysNew(p, cur, ctxs) ==
    IF ~Truthy(p) THEN <<"NONE", cur, ctxs>>
    ELSE IF p = cur THEN <<"UNCHANGED", cur, ctxs>>
    ELSE <<"NEW_BLANK", p, DictSetItem(ctxs, p, PatientContext(p))>>

\* _activate_patient without line 160: the pointer moves to a new id for
\* which no PatientContext is stored.
ActivatePatient_PointerOnly(p, cur, ctxs) ==
    IF ~Truthy(p) THEN <<"NONE", cur, ctxs>>
    ELSE IF p = cur THEN <<"UNCHANGED", cur, ctxs>>
    ELSE IF HasKey(ctxs, p) THEN <<"SWITCH_EXISTING", p, ctxs>>
    ELSE <<"NEW_BLANK", p, ctxs>>

\* _activate_patient that activates a known id as if it were new: its
\* context is rebuilt and moved to the end of the registry.
ActivatePatient_ReRegister(p, cur, ctxs) ==
    IF ~Truthy(p) THEN <<"NONE", cur, ctxs>>
    ELSE IF p = cur THEN <<"UNCHANGED", cur, ctxs>>
    ELSE IF HasKey(ctxs, p)
         THEN <<"SWITCH_EXISTING", p,
                Append(SelectSeq(ctxs, LAMBDA c : c.patient_id # p),
                       [patient_id |-> p, facts |-> <<>>])>>
    ELSE <<"NEW_BLANK", p, Append(ctxs, [patient_id |-> p, facts |-> <<>>])>>

\* _activate_patient: <<decision, patient_id, patient_contexts>>
ActivatePatient(p, cur, ctxs) ==
    IF ~Truthy(p) THEN <<"NONE", cur, ctxs>>
    ELSE IF p = cur THEN <<"UNCHANGED", cur, ctxs>>
    ELSE IF HasKey(ctxs, p) THEN <<"SWITCH_EXISTING", p, ctxs>>
    ELSE <<"NEW_BLANK", p, DictSetItem(ctxs, p, PatientContext(p))>>

\* _clear that also forgets the contexts.
Clear_DropContexts(cur, ctxs) == <<"CLEAR", None, <<>> >>

\* _clear: the active pointer is dropped, the contexts are retained.
Clear(cur, ctxs) == <<"CLEAR", None, ctxs>>

\* Transition table that believes the tag: ACTIVATE_NEW always makes a blank
\* context, SWITCH_EXISTING only ever switches.
ApplyAction_TrustTag(a, p, cur, ctxs) ==
    IF a = "CLEAR" THEN <<"CLEAR", None, ctxs>>
    ELSE IF a = "ACTIVATE_NEW" /\ Truthy(p)
         THEN (IF p = cur THEN <<"UNCHANGED", cur, ctxs>>
               ELSE <<"NEW_BLANK", p,
                      IF HasKey(ctxs, p) THEN ctxs
                      ELSE Append(ctxs, [patient_id |-> p, facts |-> <<>>])>>)
    ELSE IF a = "SWITCH_EXISTING" /\ Truthy(p)
         THEN (IF p = cur THEN <<"UNCHANGED", cur, ctxs>>
               ELSE IF HasKey(ctxs, p) THEN <<"SWITCH_EXISTING", p, ctxs>>
               ELSE <<"NEW_BLANK", p, Append(ctxs, [patient_id |-> p, facts |-> <<>>])>>)
    ELSE IF a = "UNCHANGED" THEN <<"UNCHANGED", cur, ctxs>>
    ELSE <<"NONE", cur, ctxs>>

\* Transition table in which SWITCH_EXISTING to an unknown id is ignored.
ApplyAction_SwitchKnownOnly(a, p, cur, ctxs) ==
    IF a = "CLEAR" THEN <<"CLEAR", None, ctxs>>
    ELSE IF a \in {"ACTIVATE_NEW", "SWITCH_EXISTING"} /\ Truthy(p)
         THEN (IF p = cur THEN <<"UNCHANGED", cur, ctxs>>
               ELSE IF HasKey(ctxs, p) THEN <<"SWITCH_EXISTING", p, ctxs>>
               ELSE IF a = "SWITCH_EXISTING" THEN <<"NONE", cur, ctxs>>
               ELSE <<"NEW_BLANK", p, Append(ctxs, [patient_id |-> p, facts |-> <<>>])>>)
    ELSE IF a = "UNCHANGED" THEN <<"UNCHANGED", cur, ctxs>>
    ELSE <<"NONE", cur, ctxs>>

\* Transition table in which UNCHANGED with a candidate activates it.
ApplyAction_UnchangedActivates(a, p, cur, ctxs) ==
    IF a = "CLEAR" THEN <<"CLEAR", None, ctxs>>
    ELSE IF a \in {"ACTIVATE_NEW", "SWITCH_EXISTING", "UNCHANGED"} /\ Truthy(p)
         THEN (IF p = cur THEN <<"UNCHANGED", cur, ctxs>>
               ELSE IF HasKey(ctxs, p) THEN <<"SWITCH_EXISTING", p, ctxs>>
               ELSE <<"NEW_BLANK", p, Append(ctxs, [patient_id |-> p, facts |-> <<>>])>>)
    ELSE IF a = "UNCHANGED" THEN <<"UNCHANGED", cur, ctxs>>
    ELSE <<"NONE", cur, ctxs>>

\* Transition table without the `if pid` guards: a missing candidate is
\* activated like any other.
ApplyAction_NoPidGuard(a, p, cur, ctxs) ==
    IF a = "CLEAR" THEN <<"CLEAR", None, ctxs>>
    ELSE IF a \in {"ACTIVATE_NEW", "SWITCH_EXISTING"}
         THEN (IF p = cur THEN <<"UNCHANGED", cur, ctxs>>
               ELSE IF HasKey(ctxs, p) THEN <<"SWITCH_EXISTING", p, ctxs>>
               ELSE <<"NEW_BLANK", p, Append(ctxs, [patient_id |-> p, facts |-> <<>>])>>)
    ELSE IF a = "UNCHANGED" THEN <<"UNCHANGED", cur, ctxs>>
    ELSE <<"NONE", cur, ctxs>>

\* decide_and_apply lines 68-80: the transition table.
ApplyAction(a, p, cur, ctxs) ==
    IF a = "CLEAR" THEN Clear(cur, ctxs)
    ELSE IF a \in {"ACTIVATE_NEW", "SWITCH_EXISTING"}
         THEN (IF Truthy(p) THEN ActivatePatient(p, cur, ctxs) ELSE <<"NONE", cur, ctxs>>)
    ELSE IF a = "UNCHANGED" THEN <<"UNCHANGED", cur, ctxs>>
    ELSE <<"NONE", cur, ctxs>>

\* Removal that trusts the record to be the first message: messages[1:].
RemoveSystemMessage_DropsHead(msgs) ==
    IF msgs = <<>> THEN msgs ELSE Tail(msgs)

\* _remove_system_message
RemoveSystemMessage(msgs) == NonContext(msgs)

\* _ensure_system_message without the removal of line 214.
EnsureSystemMessage_NoRemove(msgs, cur, ctxs, summary) ==
    IF ~Truthy(cur) THEN msgs
    ELSE <<[role |-> "system", prefixed |-> TRUE, text |-> "record",
            payload |-> [conversation_id |-> ConversationId,
                         patient_id |-> cur,
                         all_patient_ids |-> Keys(ctxs),
                         chat_summary |-> summary]]>> \o msgs

\* _ensure_system_message that stores the record in slot 0 (messages[0] = ...)
\* instead of inserting it there.
EnsureSystemMessage_Overwrite(msgs, cur, ctxs, summary) ==
    LET cleaned == SelectSeq(msgs, LAMBDA m : ~(m.role = "system" /\ m.prefixed))
        rec == [role |-> "system", prefixed |-> TRUE, text |-> "record",
                payload |-> [conversation_id |-> ConversationId,
                             patient_id |-> cur,
                             all_patient_ids |-> Keys(ctxs),
                             chat_summary |-> summary]]
    IN  IF ~Truthy(cur) THEN cleaned
        ELSE IF cleaned = <<>> THEN <<rec>>
        ELSE <<rec>> \o Tail(cleaned)

\* _ensure_system_message
EnsureSystemMessage(msgs, cur, ctxs, summary) ==
    LET cleaned == RemoveSystemMessage(msgs)
    IN  IF ~Truthy(cur) THEN cleaned
        ELSE <<SystemMessage([conversation_id |-> ConversationId,
                              patient_id |-> cur,
                              all_patient_ids |-> Keys(ctxs),
                              chat_summary |-> summary])>> \o cleaned

\* Synchronisation that leaves the transcript alone on CLEAR.
SyncSystemMessage_KeepOnClear(d, msgs, cur, ctxs, summary) ==
    IF d = "CLEAR" THEN msgs
    ELSE EnsureSystemMessage(msgs, cur, ctxs, summary)

\* Synchronisation that rewrites the record only when the decision changed
\* something.
SyncSystemMessage_SkipWhenUnchanged(d, msgs, cur, ctxs, summary) ==
    IF d = "CLEAR" THEN RemoveSystemMessage(msgs)
    ELSE IF d \in {"NONE", "UNCHANGED"} THEN msgs
    ELSE EnsureSystemMessage(msgs, cur, ctxs, summary)

\* decide_and_apply lines 117-122
SyncSystemMessage(d, msgs, cur, ctxs, summary) ==
    IF d = "CLEAR" THEN RemoveSystemMessage(msgs)
    ELSE EnsureSystemMessage(msgs, cur, ctxs, summary)

\* history_text.strip(): every non-context message contributes "role: ...".
HasHistoryText(msgs) == Len(NonContext(msgs)) > 0

\* ------------------------------------------- the record's wire format
\* A message content is a run of pieces: the PATIENT_CONTEXT_JSON: marker,
\* blanks, a colon, free text, or the text of a JSON object, whose members
\* are kept as the JSON values they were written as.
JsonScalar(x) ==
    IF x = None THEN [t |-> "null", s |-> ""] ELSE [t |-> "string", s |-> x]
FromJsonScalar(j) == IF j.t = "null" THEN None ELSE j.s

NoJson == [conversation_id |-> JsonScalar(None), patient_id |-> JsonScalar(None),
           all_patient_ids |-> <<>>, chat_summary |-> JsonScalar(None)]

\* json.dumps that writes the ids last-registered first.
JsonDumps_ReversedIds(payload) ==
    [conversation_id |-> JsonScalar(payload.conversation_id),
     patient_id |-> JsonScalar(payload.patient_id),
     all_patient_ids |->
        [i \in 1..Len(payload.all_patient_ids) |->
            JsonScalar(payload.all_patient_ids[Len(payload.all_patient_ids) + 1 - i])],
     chat_summary |-> JsonScalar(payload.chat_summary)]

\* json.dumps(payload, separators=(',', ':')), lines 221-230 (the timing and
\* token-count members are numbers no reader of the record compares).
JsonDumps(payload) ==
    [conversation_id |-> JsonScalar(payload.conversation_id),
     patient_id |-> JsonScalar(payload.patient_id),
     all_patient_ids |->
        [i \in 1..Len(payload.all_patient_ids) |-> JsonScalar(payload.all_patient_ids[i])],
     chat_summary |-> JsonScalar(payload.chat_summary)]

\* f"{PATIENT_CONTEXT_PREFIX} {json.dumps(...)}"
RecordLine(payload) ==
    [pieces |-> <<"prefix", "space", "json">>, json |-> JsonDumps(payload)]

\* What follows the marker in a message the service did not write: nothing
\* but blanks, a JSON array, a JSON scalar, or text that is not JSON.
ForeignBodies == {"blank", "array", "scalar", "text"}
BodyPieces(text) ==
    IF text = "blank" THEN <<>>
    ELSE IF text \in {"array", "scalar"} THEN <<text>>
    ELSE <<"text">>

\* The content of a transcript message.
MessageContent(m) ==
    IF m.role = "system" /\ m.prefixed /\ m.text = "record" THEN RecordLine(m.payload)
    ELSE [pieces |-> IF m.prefixed THEN <<"prefix", "space">> \o BodyPieces(m.text)
                     ELSE <<"text">>,
          json |-> NoJson]

\* str.strip() on a run of pieces.
RECURSIVE LStrip(_)
LStrip(ps) == IF ps # <<>> /\ Head(ps) = "space" THEN LStrip(Tail(ps)) ELSE ps
RECURSIVE RStrip(_)
RStrip(ps) ==
    IF ps # <<>> /\ ps[Len(ps)] = "space" THEN RStrip(SubSeq(ps, 1, Len(ps) - 1)) ELSE ps
Strip(ps) == RStrip(LStrip(ps))

NoJsonPart == [pieces |-> <<>>, json |-> NoJson]

\* AssistantBot._get_system_patient_context_json: the text after the marker
\* of the first system message that starts with it, or None.
GetSystemPatientContextJson(msgs) ==
    LET hits == {i \in 1..Len(msgs) :
                    /\ msgs[i].role = "system"
                    /\ Head(MessageContent(msgs[i]).pieces) = "prefix"}
    IN  IF hits = {} THEN NoJsonPart
        ELSE LET first == CHOOSE i \in hits : \A j \in hits : i <= j
                 line == MessageContent(msgs[first])
                 part == Strip(Tail(line.pieces))
                 rest == IF part # <<>> /\ Head(part) = "colon"
                         THEN Strip(Tail(part)) ELSE part
             IN  IF rest = <<>> THEN NoJsonPart
                 ELSE [pieces |-> rest, json |-> line.json]

\* json.loads(json_payload) in _append_pc_ctx, line 308: ok unless it raises
\* JSONDecodeError; isobj when the value decoded is a dict.
PayloadJsonLoads(part) ==
    IF part.pieces \in {<<"array">>, <<"scalar">>}
    THEN [ok |-> TRUE, isobj |-> FALSE, obj |-> NoPayload]
    ELSE IF part.pieces = <<"json">>
    THEN [ok |-> TRUE, isobj |-> TRUE,
          obj |-> [conversation_id |-> FromJsonScalar(part.json.conversation_id),
                   patient_id |-> FromJsonScalar(part.json.patient_id),
                   all_patient_ids |->
                      [i \in 1..Len(part.json.all_patient_ids) |->
                          FromJsonScalar(part.json.all_patient_ids[i])],
                   chat_summary |-> FromJsonScalar(part.json.chat_summary)]]
    ELSE [ok |-> FALSE, isobj |-> FALSE, obj |-> NoPayload]

\* ------------------------------------------------ the renderer's texts
\* A reply or user text is a run of pieces: ordinary text, or one of the
\* strings _append_pc_ctx writes or looks for.
Text(ps) == [pieces |-> ps, json |-> NoJson]
OldMarker == "\nPC_CTX"
Rule == "\n\n---"
BlockMarker == "\n*PT_CTX:*"
RawMarker == "\n*PT_CTX (raw):*"

\* Line 294: "\nPC_CTX" in base or "\n*PT_CTX:*" in base
HasContextBlock(base) ==
    \E i \in 1..Len(base.pieces) : base.pieces[i] \in {OldMarker, BlockMarker}

\* Lines 310-328: the bullet lines of the block, after its two header lines.
FormatLines(obj) ==
    (IF Truthy(obj.patient_id) THEN <<"- **Patient ID:**">> ELSE <<>>)
    \o (IF Truthy(obj.conversation_id) THEN <<"- **Conversation ID:**">> ELSE <<>>)
    \o (IF obj.all_patient_ids # <<>> THEN <<"- **Session Patients:**">> ELSE <<>>)
    \o (IF Truthy(obj.chat_summary) THEN <<"- **Summary:**">> ELSE <<>>)
    \o (IF ~Truthy(obj.patient_id) THEN <<"- *No active patient.*">> ELSE <<>>)

Rendered(text) == [raised |-> "no", text |-> text]
RenderRaised(e) == [raised |-> e, text |-> Text(<<>>)]

\* AssistantBot._append_pc_ctx
AppendPcCtx(base, msgs) ==
    LET part == GetSystemPatientContextJson(msgs)
        loaded == PayloadJsonLoads(part)
        lines == FormatLines(loaded.obj)
    IN  IF HasContextBlock(base) THEN Rendered(base)
        ELSE IF part = NoJsonPart THEN Rendered(base)
        ELSE IF ~loaded.ok
        THEN Rendered([pieces |-> base.pieces \o <<Rule, RawMarker>> \o part.pieces,
                       json |-> part.json])
        ELSE IF ~loaded.isobj THEN RenderRaised("AttributeError")
        ELSE IF Len(lines) > 0
        THEN Rendered([pieces |-> base.pieces \o <<Rule, BlockMarker>> \o lines,
                       json |-> part.json])
        ELSE Rendered(base)

\* ------------------------------------------------------------------ state
VARIABLES
    patient_id,                 \* ChatContext.patient_id
    patient_contexts,           \* ChatContext.patient_contexts
    messages,                   \* ChatContext.chat_history.messages
    pc,                         \* where the turn stands
    user_text,                  \* decide_and_apply / analyze argument
    llm_called,                 \* the classifier request has been issued
    response,                   \* what the classifier request came back with
    outcome,                    \* what analyze handed to its caller
    action, pid,                \* decide_and_apply locals
    decision,
    original_patient_id, original_patient_contexts,
    chat_summary,
    summary_result,             \* what the summarizer request came back with
    constructed,                \* ids PatientContext(...) was built for, in order
    steps,                      \* what the current turn has done so far
    store,                      \* what the persistence accessor holds
    turn,                       \* the turn handlers in progress, each with its locals
    render                      \* a text on its way through _append_pc_ctx

vars == <<patient_id, patient_contexts, messages, pc, user_text, llm_called,
          response, outcome, action, pid, decision,
          original_patient_id, original_patient_contexts, chat_summary,
          summary_result, constructed, steps, store, turn, render>>

ctx == <<patient_id, patient_contexts, messages>>
locals == <<action, pid, decision, original_patient_id,
            original_patient_contexts, chat_summary>>
trace == <<summary_result, constructed, steps>>
bot == <<store, turn, render>>

\* The bot around the service is not running.
NoStore == [patient_id |-> None, patient_contexts |-> <<>>, messages |-> <<>>]
NoTurns == <<>>
NoRender == [pc |-> "-", base |-> Text(<<>>),
             once |-> Rendered(Text(<<>>)), twice |-> Rendered(Text(<<>>)),
             sent |-> FALSE]
NoBot ==
    /\ store = NoStore
    /\ turn = NoTurns
    /\ render = NoRender

UserTexts == {"", "some text"}
NoOutcome == [raised |-> "no", action |-> "-", pid |-> None]

InitLocals ==
    /\ user_text = ""
    /\ llm_called = FALSE
    /\ response = NoResponse
    /\ outcome = NoOutcome
    /\ action = "-"
    /\ pid = None
    /\ decision = "-"
    /\ original_patient_id = None
    /\ original_patient_contexts = <<>>
    /\ chat_summary = None
    /\ summary_result = "-"
    /\ steps = <<>>

\* ChatContext.__init__
Init ==
    /\ patient_id = None
    /\ patient_contexts = <<>>
    /\ messages = <<>>
    /\ constructed = <<>>
    /\ pc = "idle"
    /\ InitLocals
    /\ NoBot

\* decide_and_apply is entered and awaits analyze (lines 55-59); analyze
\* issues the request unless user_text is empty.
StartTurn(t) ==
    /\ pc = "idle"
    /\ pc' = "analyzing"
    /\ user_text' = t
    /\ llm_called' = NeedsLlmCall(t)
    /\ steps' = <<"classify">>
    /\ UNCHANGED <<ctx, locals, response, outcome, summary_result, constructed>>
    /\ UNCHANGED bot

\* The rest of the turn once the summary (or None) is known: lines 110-134.
FinishTurn(d, cur, ctxs, summary) ==
    /\ messages' = SyncSystemMessage(d, messages, cur, ctxs, summary)
    /\ chat_summary' = summary
    /\ pc' = "returned"

\* PatientContext(...) calls so far, with the one of line 160 when it ran.
Constructed(log, d, p) ==
    IF d = "NEW_BLANK" /\ Len(log) <= MaxIds THEN Append(log, p) ELSE log

\* Everything analyze can hand back once the request has been issued.
LlmResults == {AnalyzeResult(r) : r \in Responses}

\* analyze as decide_and_apply sees it (lines 55-59).
AnalyzeOutcomes(called) ==
    IF called THEN LlmResults ELSE {Return("NONE", None)}

\* decide_and_apply that rewrites the transcript right after the transition,
\* before it asks for the summary.
AnalyzerReturn_SyncBeforeSummary ==
    /\ pc = "analyzing"
    /\ \E res \in AnalyzeOutcomes(llm_called) :
        LET t == ApplyAction(res.action, res.pid, patient_id, patient_contexts)
        IN  /\ res.raised = "no"
            /\ action' = res.action
            /\ pid' = res.pid
            /\ original_patient_id' = patient_id
            /\ original_patient_contexts' = patient_contexts
            /\ decision' = t[1]
            /\ patient_id' = t[2]
            /\ patient_contexts' = t[3]
            /\ constructed' = Constructed(constructed, t[1], res.pid)
            /\ messages' = SyncSystemMessage(t[1], messages, t[2], t[3], None)
            /\ chat_summary' = None
            /\ IF HasHistoryText(messages)
               THEN /\ pc' = "summarizing"
                    /\ steps' = steps \o <<"apply", "sync", "summarize">>
               ELSE /\ pc' = "returned"
                    /\ steps' = steps \o <<"apply", "sync">>
    /\ UNCHANGED <<user_text, llm_called, response, outcome, summary_result>>
    /\ UNCHANGED bot

\* analyze returns; lines 61-102 run up to the summarizer await.
AnalyzerReturn ==
    /\ pc = "analyzing"
    /\ \E res \in AnalyzeOutcomes(llm_called) :
        IF res.raised # "no"
        THEN /\ pc' = "failed"
             /\ UNCHANGED <<ctx, locals, constructed, steps>>
        ELSE LET t == ApplyAction(res.action, res.pid, patient_id, patient_contexts)
             IN  /\ action' = res.action
                 /\ pid' = res.pid
                 /\ original_patient_id' = patient_id
                 /\ original_patient_contexts' = patient_contexts
                 /\ decision' = t[1]
                 /\ patient_id' = t[2]
                 /\ patient_contexts' = t[3]
                 /\ constructed' = Constructed(constructed, t[1], res.pid)
                 /\ IF HasHistoryText(messages)
                    THEN /\ pc' = "summarizing"
                         /\ steps' = steps \o <<"apply", "summarize">>
                         /\ UNCHANGED <<messages, chat_summary>>
                    ELSE /\ FinishTurn(t[1], t[2], t[3], None)
                         /\ steps' = steps \o <<"apply", "sync">>
    /\ UNCHANGED <<user_text, llm_called, response, outcome, summary_result>>
    /\ UNCHANGED bot

\* summarize_text returns; lines 104-134.
SummarizerReturn(o) ==
    /\ pc = "summarizing"
    /\ summary_result' = o
    /\ LET summary == ServiceSummary(o)
       IN  IF summary = SummaryRaised
           THEN /\ pc' = "failed"
                /\ UNCHANGED <<messages, chat_summary, steps>>
           ELSE /\ FinishTurn(decision, patient_id, patient_contexts, summary)
                /\ steps' = Append(steps, "sync")
    /\ UNCHANGED <<patient_id, patient_contexts, user_text, llm_called, response,
                   outcome, action, pid, decision, constructed,
                   original_patient_id, original_patient_contexts>>
    /\ UNCHANGED bot

\* decide_and_apply hands (decision, timing) to the bot.
ReturnToCaller ==
    /\ pc = "returned"
    /\ pc' = "idle"
    /\ user_text' = ""
    /\ llm_called' = FALSE
    /\ action' = "-"
    /\ pid' = None
    /\ decision' = "-"
    /\ original_patient_id' = None
    /\ original_patient_contexts' = <<>>
    /\ chat_summary' = None
    /\ summary_result' = "-"
    /\ steps' = <<>>
    /\ UNCHANGED <<ctx, response, outcome, constructed>>
    /\ UNCHANGED bot

\* on_message_activity line 163 / process_chat: a user or assistant message
\* is appended to the history after the turn's context decision.
AppendMessage(m) ==
    /\ pc = "idle"
    /\ Len(NonContext(messages)) < MaxMsgs
    /\ messages' = Append(messages, m)
    /\ UNCHANGED <<patient_id, patient_contexts, pc, user_text, llm_called,
                   response, outcome, locals, trace>>
    /\ UNCHANGED bot

Next ==
    \/ \E t \in UserTexts : StartTurn(t)
    \/ AnalyzerReturn
    \/ \E o \in SummaryOutcomes : SummarizerReturn(o)
    \/ ReturnToCaller
    \/ \E m \in AppendableMessages : AppendMessage(m)

Spec == Init /\ [][Next]_vars


\* --------------------------------------------- analyze, checked on its own
\* Every registry the service can pass as known_patient_ids.
KeyLists ==
    {k \in UNION {[1..n -> PatientIds] : n \in 0..MaxIds} :
        \A i, j \in 1..Len(k) : k[i] = k[j] => i = j}
Registries == {[i \in 1..Len(k) |-> PatientContext(k[i])] : k \in KeyLists}

InitAnalyzer ==
    /\ patient_contexts \in Registries
    /\ patient_id \in {None} \cup {patient_contexts[i].patient_id : i \in 1..Len(patient_contexts)}
    /\ messages = <<>>
    /\ pc = "call"
    /\ user_text \in UserTexts
    /\ llm_called = FALSE
    /\ response = NoResponse
    /\ outcome = NoOutcome
    /\ action = "-"
    /\ pid = None
    /\ decision = "-"
    /\ original_patient_id = None
    /\ original_patient_contexts = <<>>
    /\ chat_summary = None
    /\ summary_result = "-"
    /\ constructed = Keys(patient_contexts)
    /\ steps = <<>>
    /\ NoBot

\* analyze lines 60-121: short-circuit on empty text, else issue the request.
AnalyzeEnter ==
    /\ pc = "call"
    /\ IF NeedsLlmCall(user_text)
       THEN /\ llm_called' = TRUE
            /\ pc' = "await"
            /\ UNCHANGED outcome
       ELSE /\ outcome' = Return("NONE", None)
            /\ pc' = "done"
            /\ UNCHANGED llm_called
    /\ UNCHANGED <<ctx, locals, trace, user_text, response>>
    /\ UNCHANGED bot

\* analyze lines 121-170: the request comes back (or fails) and is decoded.
LlmReturn(r) ==
    /\ pc = "await"
    /\ response' = r
    /\ outcome' = AnalyzeResult(r)
    /\ pc' = "done"
    /\ UNCHANGED <<ctx, locals, trace, user_text, llm_called>>
    /\ UNCHANGED bot

NextAnalyzer ==
    \/ AnalyzeEnter
    \/ \E r \in Responses : LlmReturn(r)

SpecAnalyzer == InitAnalyzer /\ [][NextAnalyzer]_vars


\* ------------------------------------- _append_pc_ctx, checked on its own
service == <<patient_id, patient_contexts, messages, pc, user_text, llm_called,
             response, outcome, action, pid, decision,
             original_patient_id, original_patient_contexts, chat_summary,
             summary_result, constructed, steps>>

\* Records _ensure_system_message can have written: an active id among the
\* registered ones.
RecordPayloads ==
    UNION {{[conversation_id |-> ConversationId, patient_id |-> k[i],
             all_patient_ids |-> k, chat_summary |-> sm] :
                i \in 1..Len(k), sm \in {None, "", "summary"}} : k \in KeyLists}
RecordMessages == {SystemMessage(p) : p \in RecordPayloads}

\* System messages that start with the marker and were not written by the
\* service (the group chat shares the history; the context comes from storage).
ForeignMessages == {ChatMessage("system", TRUE, b) : b \in ForeignBodies}

\* The transcript _append_pc_ctx is given: at most one ordinary message, then
\* at most one system message carrying the marker.
RenderTranscripts ==
    {h \o r : h \in {<<>>} \cup {<<m>> : m \in AppendableMessages},
              r \in {<<>>} \cup {<<m>> : m \in RecordMessages \cup ForeignMessages}}

\* Texts handed to _append_pc_ctx: a user text (line 162) or a reply
\* (line 211), possibly carrying a block from an earlier rendering.
Bases ==
    {Text(<<>>), Text(<<"text">>), Text(<<"text", OldMarker, "text">>),
     Text(<<"text", Rule, BlockMarker, "- *No active patient.*">>)}

InitRender ==
    /\ patient_id = None
    /\ patient_contexts = <<>>
    /\ messages \in RenderTranscripts
    /\ constructed = <<>>
    /\ pc = "idle"
    /\ InitLocals
    /\ store = NoStore
    /\ turn = NoTurns
    /\ render \in {[NoRender EXCEPT !.pc = "start", !.base = b] : b \in Bases}

\* _append_pc_ctx(base, chat_ctx)
RenderOnce ==
    /\ render.pc = "start"
    /\ render' = [render EXCEPT !.pc = "once",
                                !.once = AppendPcCtx(render.base, messages)]
    /\ UNCHANGED <<service, store, turn>>

\* _append_pc_ctx applied to the text it returned.
RenderAgain ==
    /\ render.pc = "once"
    /\ render.once.raised = "no"
    /\ render' = [render EXCEPT !.pc = "twice",
                                !.twice = AppendPcCtx(render.once.text, messages)]
    /\ UNCHANGED <<service, store, turn>>

\* process_chat lines 212-221: the rendered reply is sent; an exception out
\* of _append_pc_ctx leaves the loop before that.
SendActivity ==
    /\ render.pc \in {"once", "twice"}
    /\ render.once.raised = "no"
    /\ render.twice.raised = "no"
    /\ render' = [render EXCEPT !.pc = "sent", !.sent = TRUE]
    /\ UNCHANGED <<service, store, turn>>

NextRender ==
    \/ RenderOnce
    \/ RenderAgain
    \/ SendActivity

SpecRender == InitRender /\ [][NextRender]_vars


\* ----------------------------------------- the turn handler of the bot
\* AssistantBot.on_message_activity: read the context, decide_and_apply,
\* probe the agents, build the group chat, add the user message, run the
\* chat, write the context.  The host may run two handlers of one
\* conversation at once; each works on the object its own read returned.
Turns == {1, 2}

\* raw_user_text: empty, ordinary, or ending with "clear".
ClearText == "please clear"
BotTexts == UserTexts \cup {ClearText}
EndsWithClear(text) == text = ClearText

\* The persistence accessor: read hands out a context object of its own
\* holding what was written last, write replaces what is held, archive puts
\* the conversation away so that the next read starts a fresh one.
AccessorRead(held) == held
AccessorWrite(held, chat_ctx) == chat_ctx
AccessorArchive(held, chat_ctx) == NoStore

\* A handler before its first step.
NewTurn ==
    [pc |-> "start", text |-> "", ctx |-> NoStore, decision |-> "-",
     summary |-> None, log |-> <<>>, first |-> FALSE, wrote |-> 0,
     write_failed |-> FALSE]

InitBot ==
    /\ patient_id = None
    /\ patient_contexts = <<>>
    /\ messages = <<>>
    /\ constructed = <<>>
    /\ pc = "idle"
    /\ InitLocals
    /\ store = NoStore
    /\ turn = [t \in Turns |-> NewTurn]
    /\ render = NoRender

\* Lines 68-80 on a context object: the decision and the context after it.
ApplyTo(chat_ctx, res) ==
    LET t == ApplyAction(res.action, res.pid, chat_ctx.patient_id, chat_ctx.patient_contexts)
    IN  [decision |-> t[1],
         ctx |-> [chat_ctx EXCEPT !.patient_id = t[2], !.patient_contexts = t[3]]]

\* Lines 117-122 on a context object.
SyncTo(chat_ctx, d, summary) ==
    [chat_ctx EXCEPT !.messages =
        SyncSystemMessage(d, chat_ctx.messages, chat_ctx.patient_id,
                          chat_ctx.patient_contexts, summary)]

\* Handlers that have written or archived, counted to order the writes.
Writes == Cardinality({u \in Turns : turn[u].wrote > 0})

\* A read that waits until no other handler of the conversation is between
\* its read and its end.
BotRead_Serialized(t, text) ==
    /\ turn[t].pc = "start"
    /\ \A u \in Turns : turn[u].pc \in {"start", "done", "raised"}
    /\ turn' = [turn EXCEPT ![t] =
                  [@ EXCEPT !.pc = "read", !.text = text,
                            !.ctx = AccessorRead(store),
                            !.first = (store.messages = <<>>),
                            !.log = <<"read">>]]
    /\ UNCHANGED <<service, store, render>>

\* Line 104-107: chat_ctx = await chat_context_accessor.read(conversation_id)
BotRead(t, text) ==
    /\ turn[t].pc = "start"
    /\ turn' = [turn EXCEPT ![t] =
                  [@ EXCEPT !.pc = "read", !.text = text,
                            !.ctx = AccessorRead(store),
                            !.first = (store.messages = <<>>),
                            !.log = <<"read">>]]
    /\ UNCHANGED <<service, store, render>>

\* Lines 110-115: the clear command archives the conversation and returns.
BotClearAll(t) ==
    /\ turn[t].pc = "read"
    /\ EndsWithClear(turn[t].text)
    /\ LET c == [turn[t].ctx EXCEPT !.messages =
                    Append(@, ChatMessage("user", FALSE, "hello"))]
       IN  /\ store' = AccessorArchive(store, c)
           /\ turn' = [turn EXCEPT ![t] =
                         [@ EXCEPT !.pc = "done", !.ctx = c, !.wrote = Writes + 1,
                                   !.log = Append(@, "archive")]]
    /\ UNCHANGED <<service, render>>

\* Line 127 up to the await of line 55.
BotDecideEnter(t) ==
    /\ turn[t].pc = "read"
    /\ ~EndsWithClear(turn[t].text)
    /\ turn' = [turn EXCEPT ![t] =
                  [@ EXCEPT !.pc = "analyzing",
                            !.log = Append(@, "decide_and_apply")]]
    /\ UNCHANGED <<service, store, render>>

\* analyze returns: lines 61-102, and lines 110-134 when there is no
\* history text to summarize.
BotAnalyzerReturn(t) ==
    /\ turn[t].pc = "analyzing"
    /\ \E res \in AnalyzeOutcomes(NeedsLlmCall(turn[t].text)) :
        IF res.raised # "no"
        THEN turn' = [turn EXCEPT ![t] = [@ EXCEPT !.pc = "raised"]]
        ELSE LET a == ApplyTo(turn[t].ctx, res)
             IN  IF HasHistoryText(a.ctx.messages)
                 THEN turn' = [turn EXCEPT ![t] =
                                 [@ EXCEPT !.pc = "summarizing", !.ctx = a.ctx,
                                           !.decision = a.decision]]
                 ELSE turn' = [turn EXCEPT ![t] =
                                 [@ EXCEPT !.pc = "decided",
                                           !.ctx = SyncTo(a.ctx, a.decision, None),
                                           !.decision = a.decision]]
    /\ UNCHANGED <<service, store, render>>

\* summarize_text returns: lines 104-134.
BotSummarizerReturn(t, o) ==
    /\ turn[t].pc = "summarizing"
    /\ LET summary == ServiceSummary(o)
       IN  IF summary = SummaryRaised
           THEN turn' = [turn EXCEPT ![t] = [@ EXCEPT !.pc = "raised"]]
           ELSE turn' = [turn EXCEPT ![t] =
                           [@ EXCEPT !.pc = "decided", !.summary = summary,
                                     !.ctx = SyncTo(@, turn[t].decision, summary)]]
    /\ UNCHANGED <<service, store, render>>

\* A handler that saves the context on its way out of an exception.
BotCancel_Persist(t) ==
    /\ turn[t].pc \in {"analyzing", "summarizing", "chatting"}
    /\ store' = AccessorWrite(store, turn[t].ctx)
    /\ turn' = [turn EXCEPT ![t] =
                  [@ EXCEPT !.pc = "raised", !.wrote = Writes + 1,
                            !.log = Append(@, "write")]]
    /\ UNCHANGED <<service, render>>

\* The host cancels the turn, or the group chat raises, while the handler
\* is suspended (lines 55, 104, 166): the exception leaves
\* on_message_activity, which has no handler around lines 127-166.
BotCancel(t) ==
    /\ turn[t].pc \in {"analyzing", "summarizing", "chatting"}
    /\ turn' = [turn EXCEPT ![t] = [@ EXCEPT !.pc = "raised"]]
    /\ UNCHANGED <<service, store, render>>

\* Lines 136-165: the typing probe when the transcript is empty, the group
\* chat, the user message with its context block.
BotBuildChat(t) ==
    /\ turn[t].pc = "decided"
    /\ LET c == turn[t].ctx
           probe == IF Len(c.messages) = 0 THEN <<"probe">> ELSE <<>>
           tagged == AppendPcCtx(Text(<<"text">>), c.messages)
       IN  IF tagged.raised # "no"
           THEN turn' = [turn EXCEPT ![t] =
                           [@ EXCEPT !.pc = "raised",
                                     !.log = @ \o probe \o <<"group_chat">>]]
           ELSE turn' = [turn EXCEPT ![t] =
                           [@ EXCEPT !.pc = "chatting",
                                     !.ctx = [c EXCEPT !.messages =
                                                Append(@, ChatMessage("user", FALSE, "hello"))],
                                     !.log = @ \o probe \o <<"group_chat", "user_message">>]]
    /\ UNCHANGED <<service, store, render>>

\* Line 166, process_chat: the group chat adds its replies to the history
\* and each is sent.
BotProcessChat(t, n) ==
    /\ turn[t].pc = "chatting"
    /\ turn' = [turn EXCEPT ![t] =
                  [@ EXCEPT !.pc = "replied",
                            !.ctx = [@ EXCEPT !.messages =
                                       @ \o [i \in 1..n |-> ChatMessage("assistant", FALSE, "hello")]],
                            !.log = Append(@, "replies")]]
    /\ UNCHANGED <<service, store, render>>

\* A handler that saves the context only when the decision changed it.
BotWrite_OnlyWhenChanged(t, ok) ==
    /\ turn[t].pc = "replied"
    /\ IF turn[t].decision \in {"NONE", "UNCHANGED"}
       THEN /\ turn' = [turn EXCEPT ![t] = [@ EXCEPT !.pc = "done"]]
            /\ UNCHANGED store
       ELSE /\ store' = IF ok THEN AccessorWrite(store, turn[t].ctx) ELSE store
            /\ turn' = [turn EXCEPT ![t] =
                          [@ EXCEPT !.pc = "done",
                                    !.wrote = IF ok THEN Writes + 1 ELSE 0,
                                    !.write_failed = ~ok,
                                    !.log = Append(@, "write")]]
    /\ UNCHANGED <<service, render>>

\* Lines 168-171: the write; when it fails the bare except logs the
\* exception and the handler returns normally.
BotWrite(t, ok) ==
    /\ turn[t].pc = "replied"
    /\ store' = IF ok THEN AccessorWrite(store, turn[t].ctx) ELSE store
    /\ turn' = [turn EXCEPT ![t] =
                  [@ EXCEPT !.pc = "done",
                            !.wrote = IF ok THEN Writes + 1 ELSE 0,
                            !.write_failed = ~ok,
                            !.log = Append(@, "write")]]
    /\ UNCHANGED <<service, render>>

NextBot ==
    \/ \E t \in Turns, text \in BotTexts : BotRead(t, text)
    \/ \E t \in Turns : BotClearAll(t)
    \/ \E t \in Turns : BotDecideEnter(t)
    \/ \E t \in Turns : BotAnalyzerReturn(t)
    \/ \E t \in Turns, o \in SummaryOutcomes : BotSummarizerReturn(t, o)
    \/ \E t \in Turns : BotCancel(t)
    \/ \E t \in Turns : BotBuildChat(t)
    \/ \E t \in Turns, n \in 0..1 : BotProcessChat(t, n)
    \/ \E t \in Turns, ok \in BOOLEAN : BotWrite(t, ok)

SpecBot == InitBot /\ [][NextBot]_vars


\* -------------------- decide_and_apply twice on one ChatContext object
\* Two invocations share chat_ctx (patient_id, patient_contexts, messages)
\* and interleave where decide_and_apply awaits: the classifier (line 55)
\* and the summarizer (line 104).  Each keeps its locals in turn[t].
InitShared ==
    /\ patient_id = None
    /\ patient_contexts = <<>>
    /\ messages = <<>>
    /\ constructed = <<>>
    /\ pc = "idle"
    /\ InitLocals
    /\ store = NoStore
    /\ turn = [t \in Turns |-> [NewTurn EXCEPT !.pc = "idle"]]
    /\ render = NoRender

unshared == <<pc, user_text, llm_called, response, outcome, action, pid, decision,
              original_patient_id, original_patient_contexts, chat_summary,
              summary_result, constructed, steps, store, render>>

\* A user message enters the history while no invocation is running.
SharedAddMessage ==
    /\ \A t \in Turns : turn[t].pc \in {"idle", "returned"}
    /\ NonContext(messages) = <<>>
    /\ messages' = Append(messages, ChatMessage("user", FALSE, "hello"))
    /\ UNCHANGED <<patient_id, patient_contexts, turn, unshared>>

\* Lines 39-59: an invocation starts (the one before it, if any, has handed
\* its decision to its caller) and awaits analyze.
SharedEnter(t, text) ==
    /\ turn[t].pc \in {"idle", "returned"}
    /\ turn' = [turn EXCEPT ![t] = [NewTurn EXCEPT !.pc = "analyzing", !.text = text]]
    /\ UNCHANGED <<patient_id, patient_contexts, messages, unshared>>

\* original_patient_id of line 65, kept in the invocation's locals.
Originals == [NoStore EXCEPT !.patient_id = patient_id]

\* Whether another invocation stands between its transition and its
\* synchronization while this one applies its own.
ApplyEvent(t) ==
    IF \E u \in Turns \ {t} : turn[u].pc = "summarizing"
    THEN <<"apply_while_other_suspended">> ELSE <<"apply">>

\* Lines 61-102: analyze returns, the transition is applied to the shared
\* object; without history text lines 110-134 follow with no await.
SharedAnalyzerReturn(t) ==
    /\ turn[t].pc = "analyzing"
    /\ \E res \in AnalyzeOutcomes(NeedsLlmCall(turn[t].text)) :
        LET a == ApplyAction(res.action, res.pid, patient_id, patient_contexts)
        IN  /\ res.raised = "no"
            /\ patient_id' = a[2]
            /\ patient_contexts' = a[3]
            /\ IF HasHistoryText(messages)
               THEN /\ turn' = [turn EXCEPT ![t] =
                                  [@ EXCEPT !.pc = "summarizing", !.decision = a[1],
                                            !.text = "", !.ctx = Originals,
                                            !.log = ApplyEvent(t)]]
                    /\ UNCHANGED messages
               ELSE /\ turn' = [turn EXCEPT ![t] =
                                  [@ EXCEPT !.pc = "returned", !.decision = a[1],
                                            !.text = "", !.ctx = Originals,
                                            !.log = ApplyEvent(t)]]
                    /\ messages' = SyncSystemMessage(a[1], messages, a[2], a[3], None)
    /\ UNCHANGED unshared

\* A synchronization that, when the invocation's own decision changed
\* nothing, writes the record for the patient it saw on entry.
SharedSummarizerReturn_FromLocals(t, o) ==
    /\ turn[t].pc = "summarizing"
    /\ ServiceSummary(o) # SummaryRaised
    /\ messages' = SyncSystemMessage(turn[t].decision, messages,
                                     IF turn[t].decision \in {"NONE", "UNCHANGED"}
                                     THEN turn[t].ctx.patient_id ELSE patient_id,
                                     patient_contexts, ServiceSummary(o))
    /\ turn' = [turn EXCEPT ![t] = [@ EXCEPT !.pc = "returned"]]
    /\ UNCHANGED <<patient_id, patient_contexts, unshared>>

\* Lines 104-134: the summary comes back and the record is synchronized to
\* the invocation's decision and the object's pointer as they are now.
SharedSummarizerReturn(t, o) ==
    /\ turn[t].pc = "summarizing"
    /\ ServiceSummary(o) # SummaryRaised
    /\ messages' = SyncSystemMessage(turn[t].decision, messages, patient_id,
                                     patient_contexts, ServiceSummary(o))
    /\ turn' = [turn EXCEPT ![t] = [@ EXCEPT !.pc = "returned"]]
    /\ UNCHANGED <<patient_id, patient_contexts, unshared>>

NextShared ==
    \/ SharedAddMessage
    \/ \E t \in Turns, text \in UserTexts : SharedEnter(t, text)
    \/ \E t \in Turns : SharedAnalyzerReturn(t)
    \/ \E t \in Turns, o \in SummaryOutcomes : SharedSummarizerReturn(t, o)

SpecShared == InitShared /\ [][NextShared]_vars


\* ================================================================ claims
IsPrefix(a, b) == Len(a) <= Len(b) /\ \A i \in 1..Len(a) : a[i] = b[i]

\* The transition of the current turn has been applied.
Applied == pc \in {"summarizing", "returned"}
Activating == action \in {"ACTIVATE_NEW", "SWITCH_EXISTING"}
Unmutated ==
    /\ patient_id = original_patient_id
    /\ patient_contexts = original_patient_contexts

ContextIndexes == {i \in 1..Len(messages) : IsPatientContextMessage(messages[i])}

\* C1: in every state the transcript holds at most one system message that
\* starts with the PATIENT_CONTEXT_JSON: marker, and when there is one it is
\* the first message.
C1_SingleRecordAtFront ==
    /\ Cardinality(ContextIndexes) <= 1
    /\ ContextIndexes \subseteq {1}

\* A record rewritten on a later turn, in front of appended messages one of
\* which itself starts with the marker.
C1_Witness ==
    /\ pc = "returned"
    /\ Len(messages) = 3
    /\ IsPatientContextMessage(messages[1])
    /\ messages[1].payload.chat_summary = "summary"
    /\ \E i \in 2..3 : messages[i].prefixed

\* C2: every step leaves the key list of patient_contexts a prefix of the
\* key list after it: no key is removed or moved.
C2_KeysOnlyGrow ==
    [][IsPrefix(Keys(patient_contexts), Keys(patient_contexts'))]_vars

\* A second key has been registered and the registry survived a clear.
C2_Witness ==
    /\ pc = "returned"
    /\ decision = "CLEAR"
    /\ Len(patient_contexts) = 2
    /\ original_patient_id = patient_contexts[1].patient_id

\* C3: ACTIVATE_NEW or SWITCH_EXISTING naming the active patient gives
\* decision UNCHANGED and changes neither the pointer nor the registry.
C3_SameIdUnchanged ==
    (Applied /\ Activating /\ Truthy(pid) /\ pid = original_patient_id)
        => (decision = "UNCHANGED" /\ Unmutated)

C3_Witness ==
    /\ pc = "returned"
    /\ action = "ACTIVATE_NEW"
    /\ Truthy(pid)
    /\ pid = original_patient_id
    /\ Len(patient_contexts) = 2

\* C4: CLEAR, whatever candidate comes with it, sets the active pointer to
\* None, keeps every registry entry in place and gives decision CLEAR.
C4_ClearKeepsRegistry ==
    (Applied /\ action = "CLEAR")
        => (/\ decision = "CLEAR"
            /\ patient_id = None
            /\ patient_contexts = original_patient_contexts)

C4_Witness ==
    /\ pc = "returned"
    /\ action = "CLEAR"
    /\ Truthy(pid)
    /\ original_patient_id # None
    /\ pid # original_patient_id
    /\ Len(patient_contexts) = 2

\* C5: ACTIVATE_NEW or SWITCH_EXISTING naming a registered patient other
\* than the active one gives SWITCH_EXISTING, moves the pointer to it and
\* leaves the registry as it was.
C5_KnownIdSwitches ==
    (/\ Applied /\ Activating /\ Truthy(pid)
     /\ HasKey(original_patient_contexts, pid)
     /\ pid # original_patient_id)
        => (/\ decision = "SWITCH_EXISTING"
            /\ patient_id = pid
            /\ patient_contexts = original_patient_contexts)

\* The classifier said ACTIVATE_NEW for a patient that is registered.
C5_Witness ==
    /\ pc = "returned"
    /\ action = "ACTIVATE_NEW"
    /\ HasKey(original_patient_contexts, pid)
    /\ original_patient_id # None
    /\ pid # original_patient_id

\* C6: ACTIVATE_NEW or SWITCH_EXISTING naming an unregistered patient gives
\* NEW_BLANK, appends a context with no facts as the last registry entry and
\* makes it the active one.
C6_UnknownIdNewBlank ==
    (/\ Applied /\ Activating /\ Truthy(pid)
     /\ ~HasKey(original_patient_contexts, pid))
        => (/\ decision = "NEW_BLANK"
            /\ patient_id = pid
            /\ patient_contexts =
                 Append(original_patient_contexts, [patient_id |-> pid, facts |-> <<>>]))

\* The classifier said SWITCH_EXISTING for a patient never seen, while
\* another one was registered and active.
C6_Witness ==
    /\ pc = "returned"
    /\ action = "SWITCH_EXISTING"
    /\ decision = "NEW_BLANK"
    /\ Len(original_patient_contexts) = 1
    /\ original_patient_id # None

\* C7: UNCHANGED gives decision UNCHANGED and changes nothing, whatever the
\* candidate.
C7_UnchangedNoMutation ==
    (Applied /\ action = "UNCHANGED") => (decision = "UNCHANGED" /\ Unmutated)

C7_WitnessCase(p, cur, ctxs) ==
    \/ Truthy(p) /\ ~HasKey(ctxs, p) /\ cur # None
    \/ Truthy(p) /\ HasKey(ctxs, p) /\ p # cur /\ cur = None

C7_Witness ==
    /\ pc = "returned"
    /\ action = "UNCHANGED"
    /\ C7_WitnessCase(pid, original_patient_id, original_patient_contexts)

\* C8: NONE, or ACTIVATE_NEW / SWITCH_EXISTING without a candidate (None or
\* ""), gives decision NONE and changes nothing; no classifier outcome aborts
\* the turn, which goes on to the summary and the return.
C8_NoneNoMutation ==
    /\ pc # "failed"
    /\ (Applied /\ (action = "NONE" \/ (Activating /\ ~Truthy(pid))))
          => (/\ decision = "NONE"
              /\ Unmutated
              /\ (pc = "summarizing" => ENABLED SummarizerReturn("error")))

C8_Witness ==
    /\ pc = "returned"
    /\ action = "SWITCH_EXISTING"
    /\ pid = ""
    /\ original_patient_id # None
    /\ chat_summary = ""

\* The classifier's reply is one analyze must degrade on: the request
\* failed, the reply is empty, is not JSON, is JSON but no object, or its
\* action (trimmed, upper-cased) is none of the five tags.
FailureResponse(r) ==
    \/ r.kind = "error"
    \/ r.body \in {"empty", "text", "array", "scalar"}
    \/ r.fence = "lang_inline"
    \/ r.act.k \in {"falsy", "nonstr"}
    \/ r.act.tag \notin AnalyzerActions

\* C9: analyze never raises, and on every failure outcome of the request it
\* returns ("NONE", None).
C9_AnalyzeNeverRaises ==
    pc = "done"
        => (/\ outcome.raised = "no"
            /\ (llm_called /\ FailureResponse(response))
                  => (outcome.action = "NONE" /\ outcome.pid = None))

\* A reply that is JSON but not an object: data.get raises inside the try.
C9_Witness ==
    /\ pc = "done"
    /\ response.kind = "reply"
    /\ response.body = "array"
    /\ response.fence = "lang_newline"

\* C10: the action analyze returns is one of the five tags, and the patient
\* id it returns is None unless the action is ACTIVATE_NEW, SWITCH_EXISTING
\* or UNCHANGED.
C10_PidOnlyWithCandidateActions ==
    pc = "done"
        => (/\ outcome.action \in AnalyzerActions
            /\ (outcome.pid # None
                  => outcome.action \in {"ACTIVATE_NEW", "SWITCH_EXISTING", "UNCHANGED"}))


\* C11: a turn with empty user_text issues no classifier request; analyze
\* hands back ("NONE", None) and the decision is NONE with nothing changed.
C11_EmptyTextNoRequest ==
    (Applied /\ user_text = "")
        => (/\ ~llm_called
            /\ action = "NONE"
            /\ pid = None
            /\ decision = "NONE"
            /\ Unmutated)

\* An empty text arrives while a patient is active and others are known.
C11_Witness ==
    /\ pc = "returned"
    /\ user_text = ""
    /\ original_patient_id # None
    /\ Len(patient_contexts) = 2

\* The step on which decide_and_apply rewrites the transcript and returns.
TurnCompletes == pc # "returned" /\ pc' = "returned"

\* C12: when the turn ends with no active patient, the transcript it leaves
\* holds no record and is the transcript before it without its record; a
\* transcript that had none is unchanged.
C12_NoActiveNoRecord ==
    [][(TurnCompletes /\ patient_id' = None)
          => (/\ \A i \in 1..Len(messages') : ~IsPatientContextMessage(messages'[i])
              /\ messages' = IF messages # <<>> /\ IsPatientContextMessage(messages[1])
                             THEN Tail(messages) ELSE messages)]_vars

\* A CLEAR that took the record of an active patient out of a transcript
\* holding two other messages.
C12_Witness ==
    /\ pc = "returned"
    /\ decision = "CLEAR"
    /\ original_patient_id # None
    /\ patient_id = None
    /\ Len(messages) = 2
    /\ chat_summary # None

\* C13: after a turn that leaves a patient active, the first message is the
\* record built on that turn: its patient_id is the active id, its
\* all_patient_ids are the registry keys in order, its conversation_id is the
\* context's, and its summary is the one computed on this turn.
C13_RecordMatchesContext ==
    (pc \in {"returned", "idle"} /\ patient_id # None)
        => (/\ messages # <<>>
            /\ messages[1].role = "system"
            /\ messages[1].prefixed
            /\ messages[1].payload.conversation_id = ConversationId
            /\ messages[1].payload.patient_id = patient_id
            /\ messages[1].payload.all_patient_ids =
                 [i \in 1..Len(patient_contexts) |-> patient_contexts[i].patient_id]
            /\ (pc = "returned" => messages[1].payload.chat_summary = chat_summary))

\* A NONE decision on a later turn, with two patients known and the second
\* one registered first being active.
C13_Witness ==
    /\ pc = "returned"
    /\ decision = "NONE"
    /\ Len(patient_contexts) = 2
    /\ patient_id = patient_contexts[1].patient_id
    /\ chat_summary = "summary"

\* The messages that are not the record, in transcript order.
SubstantiveMessages(msgs) ==
    SelectSeq(msgs, LAMBDA m : ~(m.role = "system" /\ m.prefixed))

\* C14: no step of a turn adds, drops, changes or reorders a message other
\* than the record.
C14_SubstantiveMessagesKept ==
    [][(pc # "idle" \/ pc' # "idle")
          => SubstantiveMessages(messages') = SubstantiveMessages(messages)]_vars

\* A switch rewrote the record in front of two messages, one of them a
\* user message that itself starts with the marker.
C14_Witness ==
    /\ pc = "returned"
    /\ decision = "SWITCH_EXISTING"
    /\ Len(messages) = 3
    /\ messages[2].role = "user" /\ messages[2].prefixed
    /\ messages[3].role = "assistant"


\* C15: a PatientContext is built for an id once, when the id is first
\* activated: the constructions so far are exactly the registry keys in
\* order, and no step removes or replaces a registry entry or its facts.
C15_ContextCreatedOnce ==
    [][/\ IsPrefix(patient_contexts, patient_contexts')
       /\ constructed' =
            [i \in 1..Len(patient_contexts') |-> patient_contexts'[i].patient_id]]_vars

\* After a clear, ACTIVATE_NEW names a patient registered earlier.
C15_Witness ==
    /\ pc = "returned"
    /\ action = "ACTIVATE_NEW"
    /\ decision = "SWITCH_EXISTING"
    /\ original_patient_id = None
    /\ Len(constructed) = 2

\* What a turn may have done so far: the four steps in order, the summary
\* being left out when there is no history text.
FullRun == <<"classify", "apply", "summarize", "sync">>
ShortRun == <<"classify", "apply", "sync">>
OrderedRuns ==
    {SubSeq(FullRun, 1, n) : n \in 0..4} \cup {SubSeq(ShortRun, 1, n) : n \in 0..3}

\* C16: within a turn the steps are classify, apply, summarize, sync in that
\* order, each at most once; the context changes only on the apply step and
\* the transcript only on the sync step, which follows the summarizer's
\* return whenever the summarizer was called.
C16_StepsInOrder ==
    [][/\ steps' \in OrderedRuns
       /\ (patient_id' # patient_id \/ patient_contexts' # patient_contexts)
             => (steps = <<"classify">> /\ IsPrefix(<<"classify", "apply">>, steps'))
       /\ (pc # "idle" /\ messages' # messages)
             => (\/ steps = <<"classify">> /\ steps' = ShortRun
                 \/ steps = <<"classify", "apply", "summarize">> /\ steps' = FullRun)]_vars

\* A turn went through all four steps and changed both the pointer and the
\* transcript.
C16_Witness ==
    /\ pc = "returned"
    /\ steps = FullRun
    /\ decision = "NEW_BLANK"
    /\ Len(patient_contexts) = 2

\* C17: a failed summarizer request does not stop the turn: it returns with
\* the transition applied and the record synchronized to the decision.
C17_SummaryFailureDoesNotBlock ==
    /\ pc # "failed"
    /\ (pc = "summarizing" => ENABLED SummarizerReturn("error"))
    /\ (pc = "returned" /\ summary_result = "error")
          => (/\ decision \in Decisions
              /\ <<decision, patient_id, patient_contexts>> =
                   ApplyAction(action, pid, original_patient_id, original_patient_contexts)
              /\ IF patient_id = None
                 THEN \A i \in 1..Len(messages) : ~IsPatientContextMessage(messages[i])
                 ELSE /\ IsPatientContextMessage(messages[1])
                      /\ messages[1].payload.patient_id = patient_id)

\* The summarizer failed on a turn that registered a second patient.
C17_Witness ==
    /\ pc = "returned"
    /\ summary_result = "error"
    /\ decision = "NEW_BLANK"
    /\ Len(original_patient_contexts) = 1

\* C18: when the summarizer request fails on a turn that leaves a patient
\* active, the record's chat_summary is the "unavailable" marker.
C18_FailedSummaryIsUnavailableMarker ==
    (pc = "returned" /\ summary_result = "error" /\ patient_id # None)
        => messages[1].payload.chat_summary = SummaryUnavailable

SummaryValues == {None, "", "summary", SummaryUnavailable}

\* C19: removing the record twice leaves what removing it once leaves, and
\* running the synchronization again on the transcript it produced, with
\* the same decision and summary, changes nothing.
C19_SyncIdempotent ==
    /\ RemoveSystemMessage(RemoveSystemMessage(messages)) = RemoveSystemMessage(messages)
    /\ \A d \in Decisions, sm \in SummaryValues :
          LET once == SyncSystemMessage(d, messages, patient_id, patient_contexts, sm)
          IN  SyncSystemMessage(d, once, patient_id, patient_contexts, sm) = once
    /\ pc = "returned"
          => SyncSystemMessage(decision, messages, patient_id, patient_contexts,
                               chat_summary) = messages

\* A synchronized transcript with a record and two other messages.
C19_Witness ==
    /\ pc = "returned"
    /\ Len(messages) = 3
    /\ IsPatientContextMessage(messages[1])
    /\ decision = "UNCHANGED"
    /\ summary_result = "empty"


\* C20: whenever a patient is active after a turn, what the renderer reads
\* back from the transcript and decodes has the conversation_id, patient_id
\* and all_patient_ids (in order) the service encoded.
C20_RecordRoundTrip ==
    (pc \in {"returned", "idle"} /\ patient_id # None)
        => LET part == GetSystemPatientContextJson(messages)
               got == PayloadJsonLoads(part)
           IN  /\ part # NoJsonPart
               /\ got.ok
               /\ got.obj.conversation_id = ConversationId
               /\ got.obj.patient_id = patient_id
               /\ got.obj.all_patient_ids =
                    [i \in 1..Len(patient_contexts) |-> patient_contexts[i].patient_id]

\* The record names two patients, the first registered being active again,
\* and is read back with a later assistant message behind it.
C20_Witness ==
    /\ pc = "returned"
    /\ decision = "SWITCH_EXISTING"
    /\ Len(patient_contexts) = 2
    /\ patient_id = patient_contexts[1].patient_id
    /\ Len(messages) = 2
    /\ messages[2].role = "assistant"


\* C27: in every state the active pointer is None or the key of a registry
\* entry; it is never the empty string.
C27_ActiveIsKnownOrNone ==
    /\ patient_id # ""
    /\ patient_id # None => HasKey(patient_contexts, patient_id)

\* The pointer names the first of two registered patients, reached by a
\* switch back from the second.
C27_Witness ==
    /\ pc = "returned"
    /\ decision = "SWITCH_EXISTING"
    /\ Len(patient_contexts) = 2
    /\ patient_id = patient_contexts[1].patient_id
    /\ original_patient_id = patient_contexts[2].patient_id

\* C28: the decision states what the turn did.  NONE, UNCHANGED: nothing
\* changed.  SWITCH_EXISTING: same registry, the pointer moved to another id
\* that was registered.  NEW_BLANK: one key was appended, the new active id.
\* CLEAR: same registry, no active id.  No turn adds more than one key.
C28_DecisionDescribesMutation ==
    Applied =>
        /\ decision \in Decisions
        /\ decision \in {"NONE", "UNCHANGED"} => Unmutated
        /\ decision = "SWITCH_EXISTING"
             => (/\ patient_contexts = original_patient_contexts
                 /\ patient_id # original_patient_id
                 /\ HasKey(original_patient_contexts, patient_id))
        /\ decision = "NEW_BLANK"
             => (/\ ~HasKey(original_patient_contexts, patient_id)
                 /\ Keys(patient_contexts) =
                      Append(Keys(original_patient_contexts), patient_id)
                 /\ IsPrefix(original_patient_contexts, patient_contexts))
        /\ decision = "CLEAR"
             => (patient_id = None /\ patient_contexts = original_patient_contexts)
        /\ Len(patient_contexts) <= Len(original_patient_contexts) + 1

\* A second patient is registered while the first one is active.
C28_Witness ==
    /\ pc = "returned"
    /\ decision = "NEW_BLANK"
    /\ Len(original_patient_contexts) = 1
    /\ original_patient_id = original_patient_contexts[1].patient_id
    /\ patient_id = patient_contexts[2].patient_id


\* C21: _append_pc_ctx applied to a text it returned returns that text
\* unchanged, whatever the base text and the transcript.
C21_DoubleInvocationUnchanged ==
    render.pc = "twice" => render.twice = render.once

\* The record body the renderer found is not a decodable record object.
UndecodableRecord ==
    LET part == GetSystemPatientContextJson(messages)
    IN  /\ ~HasContextBlock(render.base)
        /\ part # NoJsonPart
        /\ ~(PayloadJsonLoads(part).ok /\ PayloadJsonLoads(part).isobj)

\* The base followed by the raw payload.
RawDisplay ==
    LET part == GetSystemPatientContextJson(messages)
    IN  [pieces |-> render.base.pieces \o <<Rule, RawMarker>> \o part.pieces,
         json |-> part.json]

\* C22: on a record body that is not a decodable record object the renderer
\* does not raise: it returns the base text followed by the raw payload, and
\* the reply can be sent.
C22_UndecodableRecordShownRaw ==
    (render.pc = "once" /\ UndecodableRecord)
        => (/\ render.once = Rendered(RawDisplay)
            /\ ENABLED SendActivity)


\* Occurrences of an event in a handler's log, and their order.
Count(l, e) == Cardinality({i \in 1..Len(l) : l[i] = e})
Before(l, a, b) == \E i, j \in 1..Len(l) : i < j /\ l[i] = a /\ l[j] = b

RecordReflects(c) ==
    IF c.patient_id = None
    THEN \A i \in 1..Len(c.messages) : ~IsPatientContextMessage(c.messages[i])
    ELSE /\ c.messages # <<>>
         /\ IsPatientContextMessage(c.messages[1])
         /\ c.messages[1].payload.patient_id = c.patient_id
         /\ c.messages[1].payload.all_patient_ids = Keys(c.patient_contexts)

\* C24: a turn that is cancelled or fails never writes the context, and
\* what is persisted never holds a pointer or registry that its transcript
\* record does not reflect.
C24_NoPartialPersistence ==
    /\ RecordReflects(store)
    /\ \A t \in Turns :
          turn[t].pc = "raised"
             => (turn[t].wrote = 0 /\ Count(turn[t].log, "write") = 0)

\* A turn was cancelled at the summarizer await after it had registered a
\* new patient: its context holds the new pointer under the old record,
\* while storage holds what the other turn wrote.
C24_Witness ==
    \E t \in Turns :
        /\ turn[t].pc = "raised"
        /\ turn[t].decision = "NEW_BLANK"
        /\ Len(turn[t].ctx.patient_contexts) = 2
        /\ ~RecordReflects(turn[t].ctx)
        /\ store.patient_id # None
        /\ store.patient_id # turn[t].ctx.patient_id

\* The handler that stored last.
LastStored(t) == turn[t].wrote > 0 /\ turn[t].wrote = Writes

\* C25: nothing serializes the turns of a conversation: a handler can read
\* whatever the other handler is doing, and a write replaces what is
\* persisted by the writer's own copy, so the last write wins.
C25_NoSerialization ==
    \A t \in Turns :
        /\ turn[t].pc = "start" => ENABLED BotRead(t, "some text")
        /\ (LastStored(t) /\ Count(turn[t].log, "write") = 1) => store = turn[t].ctx

\* Both turns read the empty context, each registered a patient and wrote:
\* the patient registered by the first writer is missing from what is
\* persisted.
C25_Witness ==
    \E t, u \in Turns :
        /\ turn[t].pc = "done" /\ turn[u].pc = "done"
        /\ turn[t].decision = "NEW_BLANK" /\ turn[u].decision = "NEW_BLANK"
        /\ turn[t].wrote = 1 /\ turn[u].wrote = 2
        /\ ~HasKey(store.patient_contexts, turn[t].ctx.patient_id)
        /\ store.patient_id = turn[u].ctx.patient_id

\* C26: when the write at the end of a turn fails, the handler raises to
\* its caller, with the decision taken and the replies sent.
C26_WriteFailureSurfaced ==
    \A t \in Turns :
        turn[t].write_failed
           => (/\ turn[t].pc = "raised"
               /\ turn[t].decision \in Decisions
               /\ Count(turn[t].log, "replies") = 1)

\* C30: on the first turn of a conversation (the context read has an empty
\* transcript) the agents are probed before the group chat is created,
\* whatever the decision.
C30_FirstTurnProbes ==
    \A t \in Turns :
        (turn[t].first /\ Count(turn[t].log, "group_chat") = 1)
           => Before(turn[t].log, "probe", "group_chat")


\* No invocation of decide_and_apply is in progress.
Quiescent == \A t \in Turns : turn[t].pc \in {"idle", "returned"}
HasRecord == \E i \in 1..Len(messages) : IsPatientContextMessage(messages[i])

\* C29: whenever no invocation is in progress, the transcript holds a
\* record exactly when a patient is active, and the record names it.
C29_RecordIffActive ==
    Quiescent =>
        /\ HasRecord <=> patient_id # None
        /\ HasRecord => messages[1].payload.patient_id = patient_id


\* C29 as it holds: whenever no invocation is in progress, a record in the
\* transcript is the first message and names the active patient, and there
\* is none when no patient is active.  (A patient can be active with no
\* record.)
C29_RecordNamesActive ==
    Quiescent =>
        /\ patient_id = None => ~HasRecord
        /\ HasRecord => (/\ IsPatientContextMessage(messages[1])
                         /\ messages[1].payload.patient_id = patient_id)

\* Both invocations have returned; the second applied its transition while
\* the first was awaiting the summary, and the record names the patient
\* that is active now.
C29_Witness ==
    /\ turn[1].pc = "returned" /\ turn[2].pc = "returned"
    /\ turn[1].decision = "NEW_BLANK"
    /\ turn[2].decision = "NEW_BLANK"
    /\ turn[2].log = <<"apply_while_other_suspended">>
    /\ HasRecord
    /\ messages[1].payload.patient_id = patient_id

====
